---------------------------- MODULE Spec2Model ----------------------------
(***************************************************************************)
(* Discovery-v4 wire-message codec (src/disc/v4/message.rs).               *)
(*                                                                         *)
(* Byte strings are sequences over 0..255.  Unsigned integers (u16, u64)   *)
(* are kept as their fixed-width big-endian byte arrays (to_be_bytes), so  *)
(* that the full 64-bit range is representable.  Every decoder takes the   *)
(* caller's slice `buf` and yields                                         *)
(*     [ok, val, err, rest, log]                                           *)
(* where `rest` is the caller's slice after the call (the `&mut &[u8]`     *)
(* cursor), also when the call fails.                                      *)
(***************************************************************************)
EXTENDS Integers, Sequences, FiniteSets, TLC

VARIABLES
    pc,      \* "encode": a value awaits encode; "decode": bytes await decode; "done"
    ty,      \* the message type the caller works with
    src,     \* how the bytes came about: the encoded value, or the hand-built parts
    wire,    \* the caller's byte slice handed to decode
    len,     \* what length() reported for the encoded value (-1: nothing encoded)
    result   \* what decode returned, with the slice left to the caller

vars == <<pc, ty, src, wire, len, result>>

-----------------------------------------------------------------------------
(* Sequence helpers *)

Drop(s, n) == SubSeq(s, n + 1, Len(s))

Take(s, n) == SubSeq(s, 1, n)

RECURSIVE Flatten(_)
Flatten(ss) == IF ss = <<>> THEN <<>> ELSE Head(ss) \o Flatten(Tail(ss))

RECURSIVE Zeros(_)
Zeros(n) == IF n = 0 THEN <<>> ELSE <<0>> \o Zeros(n - 1)

-----------------------------------------------------------------------------
(* DecodeError (fastrlp::DecodeError, imported at message.rs:5) *)

Err(kind) == [kind |-> kind, expected |-> 0, got |-> 0, msg |-> ""]

Custom(msg) == [kind |-> "Custom", expected |-> 0, got |-> 0, msg |-> msg]

ListLengthMismatch(expected, got) ==
    [kind |-> "ListLengthMismatch", expected |-> expected, got |-> got, msg |-> ""]

NoErr == Err("none")

NoVal == <<>>

\* `log` collects the tracing::debug! notes emitted during the call
Ok(val, rest) == [ok |-> TRUE, val |-> val, err |-> NoErr, rest |-> rest, log |-> <<>>]

Fail(err, rest) == [ok |-> FALSE, val |-> NoVal, err |-> err, rest |-> rest, log |-> <<>>]

-----------------------------------------------------------------------------
(* fastrlp primitives used by the derived and hand-written codecs *)

EMPTY_STRING_CODE == 128

EMPTY_LIST_CODE == 192

\* zeroless_view: the big-endian bytes without leading zero bytes
RECURSIVE ZerolessView(_)
ZerolessView(be) ==
    IF be = <<>> THEN <<>>
    ELSE IF Head(be) = 0 THEN ZerolessView(Tail(be)) ELSE be

\* usize::to_be_bytes of a length, already zeroless
RECURSIVE LenToBe(_)
LenToBe(n) == IF n = 0 THEN <<>> ELSE LenToBe(n \div 256) \o <<n % 256>>

\* u64::from_be_bytes of a length prefix.  A prefix of more than 3 bytes
\* without leading zero denotes a length >= 2^24, beyond any buffer here.
RECURSIVE BeToLen(_)
BeToLen(bs) ==
    IF bs = <<>> THEN 0
    ELSE IF Len(bs) > 3 THEN 16777216
    ELSE BeToLen(Take(bs, Len(bs) - 1)) * 256 + bs[Len(bs)]

\* static_left_pad::<LEN>: None (FALSE) on more than LEN bytes or a leading zero
StaticLeftPadOk(data, width) ==
    /\ Len(data) <= width
    /\ (data = <<>> \/ data[1] # 0)

StaticLeftPad(data, width) == Zeros(width - Len(data)) \o data

\* length_of_length
LengthOfLength(payload_length) ==
    IF payload_length < 56 THEN 1 ELSE 1 + Len(LenToBe(payload_length))

\* Header::encode
HeaderEncode(list, payload_length) ==
    IF payload_length < 56
    THEN <<(IF list THEN EMPTY_LIST_CODE ELSE EMPTY_STRING_CODE) + payload_length>>
    ELSE LET len_be == LenToBe(payload_length)
         IN  <<(IF list THEN 247 ELSE 183) + Len(len_be)>> \o len_be

\* Header::decode, the long (length-of-length) form
HeaderDecodeLong(buf, b, list) ==
    LET after == Tail(buf)
        len_of_len == b - (IF list THEN 247 ELSE 183)
    IN  IF Len(after) < len_of_len THEN Fail(Err("InputTooShort"), after)
        ELSE IF ~StaticLeftPadOk(Take(after, len_of_len), 8)
             THEN Fail(Err("LeadingZero"), after)
        ELSE LET payload_length == BeToLen(Take(after, len_of_len))
                 body == Drop(after, len_of_len)
             IN  IF payload_length < 56 THEN Fail(Err("NonCanonicalSize"), body)
                 ELSE IF Len(body) < payload_length
                      THEN Fail(Err("InputTooShort"), body)
                 ELSE Ok([list |-> list, payload_length |-> payload_length], body)

\* Header::decode
HeaderDecode(buf) ==
    IF buf = <<>> THEN Fail(Err("InputTooShort"), buf)
    ELSE LET b == buf[1]
         IN  IF b < 128 THEN Ok([list |-> FALSE, payload_length |-> 1], buf)
             ELSE IF b < 184 THEN
                 LET after == Tail(buf)
                     n == b - 128
                 IN  IF n = 1 /\ after = <<>> THEN Fail(Err("InputTooShort"), after)
                     ELSE IF n = 1 /\ after[1] < 128
                          THEN Fail(Err("NonCanonicalSingleByte"), after)
                     ELSE IF Len(after) < n THEN Fail(Err("InputTooShort"), after)
                     ELSE Ok([list |-> FALSE, payload_length |-> n], after)
             ELSE IF b < 192 THEN HeaderDecodeLong(buf, b, FALSE)
             ELSE IF b < 248 THEN
                 LET after == Tail(buf)
                     n == b - 192
                 IN  IF Len(after) < n THEN Fail(Err("InputTooShort"), after)
                     ELSE Ok([list |-> TRUE, payload_length |-> n], after)
             ELSE HeaderDecodeLong(buf, b, TRUE)

\* <&[u8] as Encodable>::encode ([u8; N] and the fixed hashes delegate to it)
BytesEncode(bs) ==
    IF Len(bs) # 1 \/ bs[1] >= EMPTY_STRING_CODE
    THEN HeaderEncode(FALSE, Len(bs)) \o bs
    ELSE bs

\* <&[u8] as Encodable>::length
BytesLength(bs) ==
    IF Len(bs) # 1 \/ bs[1] >= EMPTY_STRING_CODE
    THEN Len(bs) + LengthOfLength(Len(bs))
    ELSE Len(bs)

\* <[u8; N] as Decodable>::decode, after its Header::decode(from) gave h
ArrayAfterHeader(h, n) ==
    IF ~h.ok THEN h
    ELSE IF h.val.list THEN Fail(Err("UnexpectedList"), h.rest)
    ELSE IF h.val.payload_length # n THEN Fail(Err("UnexpectedLength"), h.rest)
    ELSE Ok(Take(h.rest, n), Drop(h.rest, n))

\* <[u8; N] as Decodable>::decode
ArrayDecode(buf, n) == ArrayAfterHeader(HeaderDecode(buf), n)

\* the unsigned-integer Encodable impls (u16, u64); x is to_be_bytes
UintEncode(x) ==
    LET be == ZerolessView(x)
    IN  IF be = <<>> THEN <<EMPTY_STRING_CODE>>
        ELSE IF Len(be) = 1 /\ be[1] < EMPTY_STRING_CODE THEN be
        ELSE <<EMPTY_STRING_CODE + Len(be)>> \o be

UintLength(x) ==
    LET be == ZerolessView(x)
    IN  IF be = <<>> \/ (Len(be) = 1 /\ be[1] < EMPTY_STRING_CODE) THEN 1
        ELSE 1 + Len(be)

\* the unsigned-integer Decodable impls, after their Header::decode(buf) gave h
UintAfterHeader(h, width) ==
    IF ~h.ok THEN h
    ELSE IF h.val.list THEN Fail(Err("UnexpectedList"), h.rest)
    ELSE IF h.val.payload_length > width THEN Fail(Err("Overflow"), h.rest)
    ELSE IF Len(h.rest) < h.val.payload_length THEN Fail(Err("InputTooShort"), h.rest)
    ELSE LET data == Take(h.rest, h.val.payload_length)
         IN  IF ~StaticLeftPadOk(data, width) THEN Fail(Err("LeadingZero"), h.rest)
             ELSE Ok(StaticLeftPad(data, width), Drop(h.rest, h.val.payload_length))

\* the unsigned-integer Decodable impls; width is BITS / 8
UintDecode(buf, width) == UintAfterHeader(HeaderDecode(buf), width)

-----------------------------------------------------------------------------
(* Field types of the structs, in declaration order *)

\* struct Endpoint { address: Ip, udp_port: u16, tcp_port: u16 }
Endpoint == <<"Ip", "u16", "u16">>

\* struct NodeRecord (super::NodeRecord): address, udp_port, tcp_port, id
NodeRecord == <<"Ip", "u16", "u16", "NodeId">>

\* struct FindNodeMessage { id: NodeId, expire: u64 }
FindNodeMessage == <<"NodeId", "u64">>

\* struct NeighboursMessage { nodes: Vec<NodeRecord>, expire: u64 }
NeighboursMessage == <<"VecNodeRecord", "u64">>

\* struct PingMessageE { version: u64, from, to, expire }
PingMessageE == <<"u64", "Endpoint", "Endpoint", "u64">>

\* struct PingMessageD { version: u64, from, to, expire }
PingMessageD == <<"u64", "Endpoint", "Endpoint", "u64">>

\* the extended struct declared without its trailing enr_seq
PingMessageDEnrNoSeq == <<"u64", "Endpoint", "Endpoint", "u64">>

\* struct PingMessageDEnr { version, from, to, expire, enr_seq: u64 }
PingMessageDEnr == <<"u64", "Endpoint", "Endpoint", "u64", "u64">>

\* struct PongMessage { to: Endpoint, echo: H256, expire: u64 } (RlpEncodable)
PongMessage == <<"Endpoint", "H256", "u64">>

\* struct PongMessageD { to, echo, expire }
PongMessageD == <<"Endpoint", "H256", "u64">>

\* the extended struct declared with enr_seq as its first field
PongMessageDEnrSeqFirst == <<"u64", "Endpoint", "H256", "u64">>

\* struct PongMessageDEnr { to, echo, expire, enr_seq: u64 }
PongMessageDEnr == <<"Endpoint", "H256", "u64", "u64">>

H256Len == 32

NodeIdLen == 64

-----------------------------------------------------------------------------
(* Encoders.  The derive macros expand once per struct; the expansion for   *)
(* the structs whose fields are all scalars (Endpoint, NodeRecord) is       *)
(* ScalarStruct*, the expansion for the message structs is Derive*.         *)

\* impl Encodable for Ip: encode
IpEncode(ip) == BytesEncode(ip.octets)

\* impl Encodable for Ip: length
IpLength(ip) == BytesLength(ip.octets)

ScalarEncode(kind, v) ==
    CASE kind = "u64" -> UintEncode(v)
      [] kind = "u16" -> UintEncode(v)
      [] kind = "Ip" -> IpEncode(v)
      [] kind = "H256" -> BytesEncode(v)
      [] kind = "NodeId" -> BytesEncode(v)

ScalarLength(kind, v) ==
    CASE kind = "u64" -> UintLength(v)
      [] kind = "u16" -> UintLength(v)
      [] kind = "Ip" -> IpLength(v)
      [] kind = "H256" -> BytesLength(v)
      [] kind = "NodeId" -> BytesLength(v)

RECURSIVE ScalarsEncode(_, _), ScalarsLength(_, _)

ScalarsEncode(fields, vals) ==
    IF fields = <<>> THEN <<>>
    ELSE ScalarEncode(Head(fields), Head(vals)) \o ScalarsEncode(Tail(fields), Tail(vals))

ScalarsLength(fields, vals) ==
    IF fields = <<>> THEN 0
    ELSE ScalarLength(Head(fields), Head(vals)) + ScalarsLength(Tail(fields), Tail(vals))

\* #[derive(RlpEncodable)] on Endpoint / NodeRecord: encode
ScalarStructEncode(fields, vals) ==
    HeaderEncode(TRUE, ScalarsLength(fields, vals)) \o ScalarsEncode(fields, vals)

\* the length of a record of the given payload length
RecordLength(payload_length) == LengthOfLength(payload_length) + payload_length

\* #[derive(RlpEncodable)] on Endpoint / NodeRecord: length
ScalarStructLength(fields, vals) == RecordLength(ScalarsLength(fields, vals))

\* the ports declared in the other order
EndpointValsTcpFirst(e) == <<e.address, e.tcp_port, e.udp_port>>

\* the fields of Endpoint in declaration order
EndpointVals(e) == <<e.address, e.udp_port, e.tcp_port>>

NodeRecordVals(n) == <<n.address, n.udp_port, n.tcp_port, n.id>>

EndpointEncode(e) == ScalarStructEncode(Endpoint, EndpointVals(e))

EndpointLength(e) == ScalarStructLength(Endpoint, EndpointVals(e))

NodeRecordEncode(n) == ScalarStructEncode(NodeRecord, NodeRecordVals(n))

NodeRecordLength(n) == ScalarStructLength(NodeRecord, NodeRecordVals(n))

\* rlp_list_header: the summed lengths of the items
RECURSIVE VecPayloadLength(_)
VecPayloadLength(nodes) ==
    IF nodes = <<>> THEN 0 ELSE NodeRecordLength(Head(nodes)) + VecPayloadLength(Tail(nodes))

\* <Vec<NodeRecord> as Encodable>::length (list_length)
VecLength(nodes) == RecordLength(VecPayloadLength(nodes))

\* <Vec<NodeRecord> as Encodable>::encode (encode_list)
VecEncode(nodes) ==
    HeaderEncode(TRUE, VecPayloadLength(nodes))
        \o Flatten([i \in 1..Len(nodes) |-> NodeRecordEncode(nodes[i])])

FieldEncode(kind, v) ==
    CASE kind = "Endpoint" -> EndpointEncode(v)
      [] kind = "VecNodeRecord" -> VecEncode(v)
      [] OTHER -> ScalarEncode(kind, v)

FieldLength(kind, v) ==
    CASE kind = "Endpoint" -> EndpointLength(v)
      [] kind = "VecNodeRecord" -> VecLength(v)
      [] OTHER -> ScalarLength(kind, v)

RECURSIVE FieldsEncode(_, _), FieldsLength(_, _)

FieldsEncode(fields, vals) ==
    IF fields = <<>> THEN <<>>
    ELSE FieldEncode(Head(fields), Head(vals)) \o FieldsEncode(Tail(fields), Tail(vals))

FieldsLength(fields, vals) ==
    IF fields = <<>> THEN 0
    ELSE FieldLength(Head(fields), Head(vals)) + FieldsLength(Tail(fields), Tail(vals))

\* #[derive(RlpEncodable)] on the message structs: encode (the header of the
\* summed field lengths, then the fields in declaration order)
DeriveEncode(fields, vals) ==
    HeaderEncode(TRUE, FieldsLength(fields, vals)) \o FieldsEncode(fields, vals)

\* #[derive(RlpEncodable)] on the message structs: length
DeriveLength(fields, vals) == RecordLength(FieldsLength(fields, vals))

FindNodeEncode(m) == DeriveEncode(FindNodeMessage, <<m.id, m.expire>>)

FindNodeLength(m) == DeriveLength(FindNodeMessage, <<m.id, m.expire>>)

NeighboursEncode(m) == DeriveEncode(NeighboursMessage, <<m.nodes, m.expire>>)

NeighboursLength(m) == DeriveLength(NeighboursMessage, <<m.nodes, m.expire>>)

\* the literal `version: 4` of PingMessage::encode / length
PingVersion == 4

U64(n) == Zeros(7) \o <<n>>

\* an encoder that emits the extended form
PingEncodeWithSeq(p) ==
    DeriveEncode(PingMessageDEnr, <<U64(PingVersion), p.from, p.to, p.expire, U64(0)>>)

\* impl Encodable for PingMessage: encode
PingEncode(p) == DeriveEncode(PingMessageE, <<U64(PingVersion), p.from, p.to, p.expire>>)

\* impl Encodable for PingMessage: length
PingLength(p) == DeriveLength(PingMessageE, <<U64(PingVersion), p.from, p.to, p.expire>>)

PongEncode(q) == DeriveEncode(PongMessage, <<q.to, q.echo, q.expire>>)

PongLength(q) == DeriveLength(PongMessage, <<q.to, q.echo, q.expire>>)

-----------------------------------------------------------------------------
(* Decoders *)

\* the match arms `Ok(Self(IpAddr::from(<[u8; N]>::decode(buf)?)))`
IpFrom(a, fam) == IF a.ok THEN Ok([fam |-> fam, octets |-> a.val], a.rest) ELSE a

\* the match without its `0 =>` arm
IpAfterPeekNoEmptyArm(h, buf) ==
    IF ~h.ok THEN Fail(h.err, buf)
    ELSE CASE h.val.payload_length = 4 -> IpFrom(ArrayDecode(buf, 4), "V4")
           [] h.val.payload_length = 16 -> IpFrom(ArrayDecode(buf, 16), "V6")
           [] OTHER -> [Fail(Custom("wrong IP address length"), buf) EXCEPT
                           !.log = <<h.val.payload_length>>]

\* impl Decodable for Ip, after the header was peeked on a copy of the slice
IpAfterPeek(h, buf) ==
    IF ~h.ok THEN Fail(h.err, buf)
    ELSE CASE h.val.payload_length = 0 -> Fail(Custom("empty"), buf)
           [] h.val.payload_length = 4 -> IpFrom(ArrayDecode(buf, 4), "V4")
           [] h.val.payload_length = 16 -> IpFrom(ArrayDecode(buf, 16), "V6")
           [] OTHER -> [Fail(Custom("wrong IP address length"), buf) EXCEPT
                           !.log = <<h.val.payload_length>>]

\* impl Decodable for Ip
IpDecode(buf) == IpAfterPeek(HeaderDecode(buf), buf)

ScalarDecode(kind, b) ==
    CASE kind = "u64" -> UintDecode(b, 8)
      [] kind = "u16" -> UintDecode(b, 2)
      [] kind = "Ip" -> IpDecode(b)
      [] kind = "H256" -> ArrayDecode(b, H256Len)
      [] kind = "NodeId" -> ArrayDecode(b, NodeIdLen)

\* a field's result put in front of the results of the fields after it
Then(r, t) ==
    IF ~t.ok THEN [t EXCEPT !.log = r.log \o t.log]
    ELSE [t EXCEPT !.val = <<r.val>> \o t.val, !.log = r.log \o t.log]

\* #[derive(RlpDecodable)]: the checks on the record's header
DeriveHeadOk(rlp_head) == rlp_head.ok /\ rlp_head.val.list

DeriveHeadErr(rlp_head, buf) ==
    IF ~rlp_head.ok THEN Fail(rlp_head.err, buf) ELSE Fail(Err("UnexpectedString"), buf)

\* a derive that reads the fields from the caller's slice itself, so that a
\* failed decode leaves the slice advanced
DeriveFinishInPlace(rlp_head, this, buf) ==
    LET consumed == Len(rlp_head.rest) - Len(this.rest)
    IN  IF ~this.ok THEN this
        ELSE IF consumed # rlp_head.val.payload_length
             THEN [Fail(ListLengthMismatch(rlp_head.val.payload_length, consumed), this.rest)
                      EXCEPT !.log = this.log]
        ELSE this

\* a derive without the comparison of the consumed bytes with the payload length
DeriveFinishUnchecked(rlp_head, this, buf) ==
    IF ~this.ok THEN [this EXCEPT !.rest = buf] ELSE this

\* #[derive(RlpDecodable)]: after the field initialisers gave `this` on the
\* copy `b` of the caller's slice, which is written back only on success
DeriveFinish(rlp_head, this, buf) ==
    LET consumed == Len(rlp_head.rest) - Len(this.rest)
    IN  IF ~this.ok THEN [this EXCEPT !.rest = buf]
        ELSE IF consumed # rlp_head.val.payload_length
             THEN [Fail(ListLengthMismatch(rlp_head.val.payload_length, consumed), buf)
                      EXCEPT !.log = this.log]
        ELSE this

RECURSIVE DecodeScalars(_, _)

ScalarsAfter(r, fields) ==
    IF ~r.ok THEN r ELSE Then(r, DecodeScalars(r.rest, fields))

\* the field initialisers `field: Decodable::decode(b)?` in declaration order
DecodeScalars(b, fields) ==
    IF fields = <<>> THEN Ok(<<>>, b)
    ELSE ScalarsAfter(ScalarDecode(Head(fields), b), Tail(fields))

ScalarStructAfterHeader(rlp_head, buf, fields) ==
    IF ~DeriveHeadOk(rlp_head) THEN DeriveHeadErr(rlp_head, buf)
    ELSE DeriveFinish(rlp_head, DecodeScalars(rlp_head.rest, fields), buf)

\* #[derive(RlpDecodable)] on Endpoint / NodeRecord
ScalarStructDecode(buf, fields) == ScalarStructAfterHeader(HeaderDecode(buf), buf, fields)

AsEndpoint(r) ==
    IF ~r.ok THEN r
    ELSE [r EXCEPT !.val = [address |-> r.val[1], udp_port |-> r.val[2],
                            tcp_port |-> r.val[3]]]

AsNodeRecord(r) ==
    IF ~r.ok THEN r
    ELSE [r EXCEPT !.val = [address |-> r.val[1], udp_port |-> r.val[2],
                            tcp_port |-> r.val[3], id |-> r.val[4]]]

EndpointDecode(buf) == AsEndpoint(ScalarStructDecode(buf, Endpoint))

NodeRecordDecode(buf) == AsNodeRecord(ScalarStructDecode(buf, NodeRecord))

RECURSIVE VecDecodeItems(_)

VecItemsAfter(r) == IF ~r.ok THEN r ELSE Then(r, VecDecodeItems(r.rest))

\* <Vec<NodeRecord> as Decodable>::decode: the loop over the payload view
VecDecodeItems(payload_view) ==
    IF payload_view = <<>> THEN Ok(<<>>, payload_view)
    ELSE VecItemsAfter(NodeRecordDecode(payload_view))

VecFinish(h, to) ==
    IF ~to.ok THEN [to EXCEPT !.rest = h.rest]
    ELSE [to EXCEPT !.rest = Drop(h.rest, h.val.payload_length)]

VecAfterHeader(h) ==
    IF ~h.ok THEN h
    ELSE IF ~h.val.list THEN Fail(Err("UnexpectedString"), h.rest)
    ELSE VecFinish(h, VecDecodeItems(Take(h.rest, h.val.payload_length)))

\* <Vec<NodeRecord> as Decodable>::decode
VecDecode(buf) == VecAfterHeader(HeaderDecode(buf))

FieldDecode(kind, b) ==
    CASE kind = "Endpoint" -> EndpointDecode(b)
      [] kind = "VecNodeRecord" -> VecDecode(b)
      [] OTHER -> ScalarDecode(kind, b)

RECURSIVE DecodeFields(_, _)

FieldsAfter(r, fields) ==
    IF ~r.ok THEN r ELSE Then(r, DecodeFields(r.rest, fields))

\* the field initialisers `field: Decodable::decode(b)?` in declaration order
DecodeFields(b, fields) ==
    IF fields = <<>> THEN Ok(<<>>, b)
    ELSE FieldsAfter(FieldDecode(Head(fields), b), Tail(fields))

DeriveAfterHeader(rlp_head, buf, fields) ==
    IF ~DeriveHeadOk(rlp_head) THEN DeriveHeadErr(rlp_head, buf)
    ELSE DeriveFinish(rlp_head, DecodeFields(rlp_head.rest, fields), buf)

\* #[derive(RlpDecodable)] on the message structs
DeriveDecode(buf, fields) == DeriveAfterHeader(HeaderDecode(buf), buf, fields)

AsFindNode(r) ==
    IF ~r.ok THEN r ELSE [r EXCEPT !.val = [id |-> r.val[1], expire |-> r.val[2]]]

AsNeighbours(r) ==
    IF ~r.ok THEN r ELSE [r EXCEPT !.val = [nodes |-> r.val[1], expire |-> r.val[2]]]

FindNodeDecode(buf) == AsFindNode(DeriveDecode(buf, FindNodeMessage))

NeighboursDecode(buf) == AsNeighbours(DeriveDecode(buf, NeighboursMessage))

\* a decode result together with the derived decodes that ran to produce it
WithAttempts(r, at) ==
    [ok |-> r.ok, val |-> r.val, err |-> r.err, rest |-> r.rest, log |-> r.log,
     attempts |-> at]

\* one derived decode: the struct tried, the slice it was given, what it gave
Attempt(shape, start, res) == [shape |-> shape, start |-> start, res |-> res]

\* a retry on whatever error the first attempt gave
IsAnyError(e) == TRUE

\* the retry test `if let DecodeError::ListLengthMismatch { .. } = e`
IsListLengthMismatch(e) == e.kind = "ListLengthMismatch"

\* the closure with from and to bound the other way round
AsPingSwapped(r) ==
    IF ~r.ok THEN r
    ELSE [r EXCEPT !.val = [from |-> r.val[3], to |-> r.val[2], expire |-> r.val[4]]]

\* the closures `|PingMessageD { from, to, expire, .. }| (from, to, expire)`
AsPing(r) ==
    IF ~r.ok THEN r
    ELSE [r EXCEPT !.val = [from |-> r.val[2], to |-> r.val[3], expire |-> r.val[4]]]

\* PingMessage::decode, the or_else closure after PingMessageDEnr::decode(buf)
PingSecond(buf, first, second) ==
    WithAttempts([AsPing(second) EXCEPT !.log = first.log \o second.log],
                 <<Attempt("PingMessageD", buf, first),
                   Attempt("PingMessageDEnr", first.rest, second)>>)

\* PingMessage::decode, after PingMessageD::decode(buf)
PingFirst(buf, first) ==
    IF first.ok THEN WithAttempts(AsPing(first), <<Attempt("PingMessageD", buf, first)>>)
    ELSE IF IsListLengthMismatch(first.err)
         THEN PingSecond(buf, first, DeriveDecode(first.rest, PingMessageDEnr))
    ELSE WithAttempts(first, <<Attempt("PingMessageD", buf, first)>>)

\* impl Decodable for PingMessage
PingDecode(buf) == PingFirst(buf, DeriveDecode(buf, PingMessageD))

\* the closures `|PongMessageD { to, echo, expire, .. }| (to, echo, expire)`
AsPong(r) ==
    IF ~r.ok THEN r
    ELSE [r EXCEPT !.val = [to |-> r.val[1], echo |-> r.val[2], expire |-> r.val[3]]]

\* PongMessage::decode, the or_else closure after PongMessageDEnr::decode(buf)
PongSecond(buf, first, second) ==
    WithAttempts([AsPong(second) EXCEPT !.log = first.log \o second.log],
                 <<Attempt("PongMessageD", buf, first),
                   Attempt("PongMessageDEnr", first.rest, second)>>)

\* PongMessage::decode, after PongMessageD::decode(buf)
PongFirst(buf, first) ==
    IF first.ok THEN WithAttempts(AsPong(first), <<Attempt("PongMessageD", buf, first)>>)
    ELSE IF IsListLengthMismatch(first.err)
         THEN PongSecond(buf, first, DeriveDecode(first.rest, PongMessageDEnr))
    ELSE WithAttempts(first, <<Attempt("PongMessageD", buf, first)>>)

\* impl Decodable for PongMessage
PongDecode(buf) == PongFirst(buf, DeriveDecode(buf, PongMessageD))

-----------------------------------------------------------------------------
(* Values the callers encode *)

MaxTrail == 2      \* bytes that may follow the record in the caller's slice

MaxFields == 6     \* top-level fields of a hand-built Ping / Pong record

MaxNodes == 3      \* nodes of a Neighbours message

MaxIpLen == 20     \* payload length of a hand-built address string

Port(n) == <<n \div 256, n % 256>>

Ports == {Port(0), Port(127), Port(30303), Port(65535)}

Ip6 == [fam |-> "V6", octets |-> <<32, 1, 13, 184>> \o Zeros(11) \o <<1>>]

Ip4a == [fam |-> "V4", octets |-> <<1, 2, 3, 4>>]

Ip4b == [fam |-> "V4", octets |-> <<5, 6, 7, 8>>]

Ips == {Ip4a, Ip4b, Ip6, [fam |-> "V4", octets |-> Zeros(4)],
        [fam |-> "V6", octets |-> Zeros(16)]}

Endpoints == [address : Ips, udp_port : Ports, tcp_port : Ports]

MaxU64 == <<255, 255, 255, 255, 255, 255, 255, 255>>

\* 0, 127, 128, 1700000000, 2^64 - 1
U64s == {U64(0), U64(127), U64(128), <<0, 0, 0, 0, 101, 83, 241, 0>>, MaxU64}

Expires == {U64(0), U64(127), <<0, 0, 0, 0, 101, 83, 241, 0>>, MaxU64}

EpA == [address |-> Ip4a, udp_port |-> Port(30303), tcp_port |-> Port(30303)]

EpB == [address |-> Ip4b, udp_port |-> Port(0), tcp_port |-> Port(127)]

EpC == [address |-> Ip6, udp_port |-> Port(30303), tcp_port |-> Port(65535)]

PingMessages == [from : {EpA, EpB, EpC}, to : {EpA, EpB, EpC}, expire : Expires]

Echoes == {[i \in 1..H256Len |-> i], [i \in 1..H256Len |-> 255]}

PongMessages == [to : {EpA, EpB, EpC}, echo : Echoes, expire : Expires]

NodeIds == {[i \in 1..NodeIdLen |-> i], [i \in 1..NodeIdLen |-> 0]}

FindNodeMessages == [id : NodeIds, expire : Expires]

NodeA == [address |-> Ip4a, udp_port |-> Port(30303), tcp_port |-> Port(0),
          id |-> [i \in 1..NodeIdLen |-> i]]

NodeB == [address |-> Ip6, udp_port |-> Port(127), tcp_port |-> Port(65535),
          id |-> [i \in 1..NodeIdLen |-> 255]]

NodeLists == UNION {[1..n -> {NodeA, NodeB}] : n \in 0..MaxNodes}

NeighboursMessages == [nodes : NodeLists, expire : {U64(0), MaxU64}]

-----------------------------------------------------------------------------
(* Hand-built byte sequences the callers decode *)

\* a record (list) of already encoded items
BuildList(items) == HeaderEncode(TRUE, Len(Flatten(items))) \o Flatten(items)

\* a length-prefixed byte string of payload length n
BuildString(n, fill) == HeaderEncode(FALSE, n) \o [i \in 1..n |-> fill]

TrailBytes == {1, 128, 192}

Trails == UNION {[1..n -> TrailBytes] : n \in 0..MaxTrail}

ShortTrails == {<<>>, <<1>>}

Repeat(item, n) == [i \in 1..n |-> item]

PingItems(ver, p) ==
    <<UintEncode(ver), EndpointEncode(p.from), EndpointEncode(p.to), UintEncode(p.expire)>>

PongItems(q) == <<EndpointEncode(q.to), BytesEncode(q.echo), UintEncode(q.expire)>>

\* the first k of the items, continued with enr_seq items
FieldsOf(items, k, enr) ==
    IF k <= Len(items) THEN Take(items, k)
    ELSE items \o Repeat(UintEncode(enr), k - Len(items))

Versions == {U64(PingVersion), U64(0), MaxU64}

SomePings == {[from |-> EpA, to |-> EpB, expire |-> <<0, 0, 0, 0, 101, 83, 241, 0>>],
              [from |-> EpC, to |-> EpA, expire |-> U64(0)],
              [from |-> EpB, to |-> EpC, expire |-> U64(127)]}

SomePongs == {[to |-> EpA, echo |-> [i \in 1..H256Len |-> i],
               expire |-> <<0, 0, 0, 0, 101, 83, 241, 0>>],
              [to |-> EpC, echo |-> [i \in 1..H256Len |-> 255], expire |-> U64(0)]}

\* endpoints whose address string has a length other than 4 or 16
BadAddressEndpoints ==
    {[why |-> "address", n |-> n,
      bytes |-> BuildList(<<BuildString(n, 200), UintEncode(Port(30303)),
                            UintEncode(Port(30303))>>)] : n \in {0, 1, 3, 5, 7, 15, 17, 60}}

\* endpoint records that do not have exactly 3 fields
BadCountEndpoints ==
    {[why |-> "count", n |-> n,
      bytes |-> BuildList(FieldsOf(<<IpEncode(Ip4a), UintEncode(Port(30303)),
                                     UintEncode(Port(30303))>>, n, U64(1)))]
        : n \in {0, 1, 2, 4, 5}}

\* other damage: a string for the record, a port wider than u16, a port with
\* a leading zero, a list for the address
OtherBadEndpoints ==
    {[why |-> "other", n |-> 0, bytes |-> b] : b \in
        {BuildString(3, 200),
         BuildList(<<IpEncode(Ip4a), <<131, 1, 0, 0>>, UintEncode(Port(1))>>),
         BuildList(<<IpEncode(Ip4a), <<130, 0, 1>>, UintEncode(Port(1))>>),
         BuildList(<<<<196, 1, 2, 3, 4>>, UintEncode(Port(1)), UintEncode(Port(1))>>)}}

BadEndpoints == BadAddressEndpoints \cup BadCountEndpoints \cup OtherBadEndpoints

ReplaceAt(items, i, item) == [items EXCEPT ![i] = item]

Prefixes(bytes) == {Take(bytes, n) : n \in 0..(Len(bytes) - 1)}

-----------------------------------------------------------------------------
(* The callers: a value is encoded and the bytes decoded again, or a          *)
(* hand-built slice is decoded                                                *)

NoResult == Fail(NoErr, <<>>)

Start(p, t, s, w) ==
    /\ pc = p
    /\ ty = t
    /\ src = s
    /\ wire = w
    /\ len = -1
    /\ result = NoResult

Value(v) == [form |-> "value", v |-> v]

InitEncode ==
    \/ \E v \in Ips : Start("encode", "Ip", Value(v), <<>>)
    \/ \E v \in Endpoints : Start("encode", "Endpoint", Value(v), <<>>)
    \/ \E v \in FindNodeMessages : Start("encode", "FindNode", Value(v), <<>>)
    \/ \E v \in NeighboursMessages : Start("encode", "Neighbours", Value(v), <<>>)
    \/ \E v \in PingMessages : Start("encode", "Ping", Value(v), <<>>)
    \/ \E v \in PongMessages : Start("encode", "Pong", Value(v), <<>>)

\* address strings of every payload length, lists in place of the string,
\* a single byte below 0x80, a non-canonical single byte, truncated strings
InitIp ==
    \/ \E n \in 0..MaxIpLen, fill \in {0, 200}, t \in ShortTrails :
          Start("decode", "Ip", [form |-> "string", n |-> n, trail |-> t],
                BuildString(n, fill) \o t)
    \/ \E n \in {56, 60}, t \in ShortTrails :
          Start("decode", "Ip", [form |-> "string", n |-> n, trail |-> t],
                BuildString(n, 200) \o t)
    \/ \E n \in {0, 4, 5, 16} :
          Start("decode", "Ip", [form |-> "list", n |-> n],
                HeaderEncode(TRUE, n) \o [i \in 1..n |-> 1])
    \/ \E b \in {<<>>, <<0>>, <<127>>, <<129, 5>>, <<129>>, <<184, 1, 1>>, <<184, 0>>} :
          Start("decode", "Ip", [form |-> "raw"], b)
    \/ \E n \in {4, 7, 16} :
          \E b \in Prefixes(BuildString(n, 200)) :
             Start("decode", "Ip", [form |-> "truncated", n |-> n], b)

InitEndpoint ==
    \/ \E bad \in BadEndpoints, t \in ShortTrails :
          Start("decode", "Endpoint", [form |-> "bad", bad |-> bad, trail |-> t],
                bad.bytes \o t)
    \/ \E v \in {EpA, EpC}, t \in Trails \ {<<>>} :
          Start("decode", "Endpoint", [form |-> "trailing", v |-> v, trail |-> t],
                EndpointEncode(v) \o t)

InitFindNode ==
    \/ \E v \in FindNodeMessages, k \in 0..3 :
          Start("decode", "FindNode", [form |-> "fields", v |-> v, k |-> k],
                BuildList(FieldsOf(<<BytesEncode(v.id), UintEncode(v.expire)>>, k, U64(1))))
    \/ \E b \in Prefixes(FindNodeEncode([id |-> NodeA.id, expire |-> MaxU64])) :
          Start("decode", "FindNode", [form |-> "truncated"], b)

InitNeighbours ==
    \/ \E bad \in BadEndpoints, e \in {U64(0), MaxU64} :
          Start("decode", "Neighbours", [form |-> "badnode", bad |-> bad],
                BuildList(<<BuildList(<<bad.bytes>>), UintEncode(e)>>))
    \/ \E v \in {<<NodeA>>, <<NodeA, NodeB>>}, k \in {0, 1, 3} :
          Start("decode", "Neighbours", [form |-> "fields", v |-> v, k |-> k],
                BuildList(FieldsOf(<<VecEncode(v), UintEncode(MaxU64)>>, k, U64(1))))

PingFieldsWire(ver, p, k, enr, t) == BuildList(FieldsOf(PingItems(ver, p), k, enr)) \o t

PingBadWire(p, pos, bad, k, t) ==
    BuildList(FieldsOf(ReplaceAt(PingItems(U64(PingVersion), p), pos, bad.bytes), k, U64(1))) \o t

InitPing ==
    \* the extended record [4, from, to, expire, enr_seq]
    \/ \E p \in PingMessages, e \in U64s :
          Start("decode", "Ping", [form |-> "ext", v |-> p, enr |-> e],
                PingFieldsWire(U64(PingVersion), p, 5, e, <<>>))
    \* records of 0..MaxFields fields, any version, bytes after the record
    \/ \E p \in SomePings, ver \in Versions, k \in 0..MaxFields, e \in {U64(1), MaxU64},
          t \in Trails :
          Start("decode", "Ping",
                [form |-> "fields", v |-> p, ver |-> ver, k |-> k, enr |-> e, trail |-> t],
                PingFieldsWire(ver, p, k, e, t))
    \* a damaged from (item 2) or to (item 3) endpoint
    \/ \E p \in SomePings, pos \in {2, 3}, bad \in BadEndpoints, k \in {4, 5},
          t \in ShortTrails :
          Start("decode", "Ping",
                [form |-> "bad", v |-> p, pos |-> pos, bad |-> bad, k |-> k, trail |-> t],
                PingBadWire(p, pos, bad, k, t))
    \/ \E p \in SomePings, k \in {4, 5} :
          \E b \in Prefixes(PingFieldsWire(U64(PingVersion), p, k, MaxU64, <<>>)) :
             Start("decode", "Ping", [form |-> "truncated", v |-> p, k |-> k], b)
    \/ \E p \in SomePings :
          Start("decode", "Ping", [form |-> "notlist", v |-> p],
                BytesEncode(Flatten(PingItems(U64(PingVersion), p))))

PongFieldsWire(q, k, enr, t) == BuildList(FieldsOf(PongItems(q), k, enr)) \o t

PongBadWire(q, bad, k, t) ==
    BuildList(FieldsOf(ReplaceAt(PongItems(q), 1, bad.bytes), k, U64(1))) \o t

InitPong ==
    \* the extended record [to, echo, expire, enr_seq]
    \/ \E q \in PongMessages, e \in U64s :
          Start("decode", "Pong", [form |-> "ext", v |-> q, enr |-> e],
                PongFieldsWire(q, 4, e, <<>>))
    \/ \E q \in SomePongs, k \in 0..MaxFields, e \in {U64(1), MaxU64}, t \in Trails :
          Start("decode", "Pong",
                [form |-> "fields", v |-> q, k |-> k, enr |-> e, trail |-> t],
                PongFieldsWire(q, k, e, t))
    \/ \E q \in SomePongs, bad \in BadEndpoints, k \in {3, 4}, t \in ShortTrails :
          Start("decode", "Pong",
                [form |-> "bad", v |-> q, pos |-> 1, bad |-> bad, k |-> k, trail |-> t],
                PongBadWire(q, bad, k, t))
    \/ \E q \in SomePongs, k \in {3, 4} :
          \E b \in Prefixes(PongFieldsWire(q, k, MaxU64, <<>>)) :
             Start("decode", "Pong", [form |-> "truncated", v |-> q, k |-> k], b)
    \* an echo that is not 32 bytes long
    \/ \E q \in SomePongs, n \in {0, 31, 33}, k \in {3, 4} :
          Start("decode", "Pong", [form |-> "badecho", v |-> q, n |-> n, k |-> k],
                BuildList(FieldsOf(ReplaceAt(PongItems(q), 2, BuildString(n, 200)), k, U64(1))))

Init ==
    \/ InitEncode
    \/ InitIp
    \/ InitEndpoint
    \/ InitFindNode
    \/ InitNeighbours
    \/ InitPing
    \/ InitPong

-----------------------------------------------------------------------------
(* Operations *)

Encoded(bytes, n) ==
    /\ wire' = bytes
    /\ len' = n
    /\ pc' = "decode"
    /\ UNCHANGED <<ty, src, result>>

Decoded(r) ==
    /\ result' = r
    /\ pc' = "done"
    /\ UNCHANGED <<ty, src, wire, len>>

IpEncodeCall ==
    /\ pc = "encode" /\ ty = "Ip"
    /\ Encoded(IpEncode(src.v), IpLength(src.v))

EndpointEncodeCall ==
    /\ pc = "encode" /\ ty = "Endpoint"
    /\ Encoded(EndpointEncode(src.v), EndpointLength(src.v))

FindNodeEncodeCall ==
    /\ pc = "encode" /\ ty = "FindNode"
    /\ Encoded(FindNodeEncode(src.v), FindNodeLength(src.v))

NeighboursEncodeCall ==
    /\ pc = "encode" /\ ty = "Neighbours"
    /\ Encoded(NeighboursEncode(src.v), NeighboursLength(src.v))

PingEncodeCall ==
    /\ pc = "encode" /\ ty = "Ping"
    /\ Encoded(PingEncode(src.v), PingLength(src.v))

PongEncodeCall ==
    /\ pc = "encode" /\ ty = "Pong"
    /\ Encoded(PongEncode(src.v), PongLength(src.v))

IpDecodeCall ==
    /\ pc = "decode" /\ ty = "Ip"
    /\ Decoded(IpDecode(wire))

EndpointDecodeCall ==
    /\ pc = "decode" /\ ty = "Endpoint"
    /\ Decoded(EndpointDecode(wire))

FindNodeDecodeCall ==
    /\ pc = "decode" /\ ty = "FindNode"
    /\ Decoded(FindNodeDecode(wire))

NeighboursDecodeCall ==
    /\ pc = "decode" /\ ty = "Neighbours"
    /\ Decoded(NeighboursDecode(wire))

PingDecodeCall ==
    /\ pc = "decode" /\ ty = "Ping"
    /\ Decoded(PingDecode(wire))

PongDecodeCall ==
    /\ pc = "decode" /\ ty = "Pong"
    /\ Decoded(PongDecode(wire))

Next ==
    \/ IpEncodeCall
    \/ EndpointEncodeCall
    \/ FindNodeEncodeCall
    \/ NeighboursEncodeCall
    \/ PingEncodeCall
    \/ PongEncodeCall
    \/ IpDecodeCall
    \/ EndpointDecodeCall
    \/ FindNodeDecodeCall
    \/ NeighboursDecodeCall
    \/ PingDecodeCall
    \/ PongDecodeCall

Spec == Init /\ [][Next]_vars

-----------------------------------------------------------------------------
(* Reading a byte sequence as records and items, independently of the        *)
(* decoders above                                                             *)

\* the length of the item at the head of bytes, header included (-1: malformed)
ItemLen(bytes) ==
    LET h == HeaderDecode(bytes)
    IN  IF ~h.ok THEN -1 ELSE (Len(bytes) - Len(h.rest)) + h.val.payload_length

\* the items of a payload, in order (<<-1>> marks a malformed tail)
RECURSIVE ItemsOf(_)
ItemsOf(payload) ==
    IF payload = <<>> THEN <<>>
    ELSE IF ItemLen(payload) < 0 THEN <<<<-1>>>>
    ELSE <<Take(payload, ItemLen(payload))>> \o ItemsOf(Drop(payload, ItemLen(payload)))

IsRecord(bytes) == HeaderDecode(bytes).ok /\ HeaderDecode(bytes).val.list

\* the fields of the record at the head of bytes
TopFields(bytes) ==
    ItemsOf(Take(HeaderDecode(bytes).rest, HeaderDecode(bytes).val.payload_length))

WellFormed(items) == \A i \in 1..Len(items) : items[i] # <<-1>>

\* the number of fields of the record at the head of bytes (-1: no record)
TopFieldCount(bytes) ==
    IF IsRecord(bytes) /\ WellFormed(TopFields(bytes)) THEN Len(TopFields(bytes)) ELSE -1

Done(t) == pc = "done" /\ ty = t

-----------------------------------------------------------------------------
(* Claims *)

\* a hand-built Ping record [4, from, to, expire, enr_seq]
IsExtendedPing ==
    \/ src.form = "ext"
    \/ src.form = "fields" /\ src.k = 5 /\ src.ver = U64(PingVersion)

\* C1: decoding a 5-field Ping record [4, from, to, expire, enr_seq] succeeds
\* and yields exactly {from, to, expire}, whatever enr_seq is: the 4-field
\* attempt fails with a list-length mismatch and the 5-field attempt is made
\* on the same bytes.
C1_PingExtensionTolerance ==
    (Done("Ping") /\ IsExtendedPing) =>
        /\ result.ok
        /\ result.val = src.v
        /\ Len(result.attempts) = 2
        /\ result.attempts[1].shape = "PingMessageD"
        /\ ~result.attempts[1].res.ok
        /\ result.attempts[1].res.err.kind = "ListLengthMismatch"
        /\ result.attempts[2].shape = "PingMessageDEnr"
        /\ result.attempts[2].start = wire
        /\ result.attempts[2].res.ok

C1_Witness ==
    /\ Done("Ping") /\ src.form = "ext" /\ src.enr = MaxU64
    /\ src.v.from.address.fam = "V6"
    /\ result.ok /\ Len(result.attempts) = 2

\* C2: decoding a 4-field Pong record [to, echo, expire, enr_seq] succeeds and
\* yields exactly {to, echo, expire}: the 3-field attempt fails with a
\* list-length mismatch, then the 4-field attempt succeeds.
C2_PongExtensionTolerance ==
    (Done("Pong") /\ (src.form = "ext" \/ (src.form = "fields" /\ src.k = 4))) =>
        /\ result.ok
        /\ result.val = src.v
        /\ Len(result.attempts) = 2
        /\ result.attempts[1].shape = "PongMessageD"
        /\ ~result.attempts[1].res.ok
        /\ result.attempts[1].res.err.kind = "ListLengthMismatch"
        /\ result.attempts[2].shape = "PongMessageDEnr"
        /\ result.attempts[2].start = wire
        /\ result.attempts[2].res.ok

C2_Witness ==
    /\ Done("Pong") /\ src.form = "ext" /\ src.enr = U64(0)
    /\ result.ok /\ Len(result.attempts) = 2

\* C3: for every PingMessage p and PongMessage q, decode(encode(p)) = p and
\* decode(encode(q)) = q field by field; the first (non-extended) shape
\* succeeds without a retry, and the decoded value has no version field.
C3_PingPongRoundTrip ==
    ((Done("Ping") \/ Done("Pong")) /\ src.form = "value") =>
        /\ result.ok
        /\ result.val = src.v
        /\ DOMAIN result.val = DOMAIN src.v
        /\ "version" \notin DOMAIN result.val
        /\ Len(result.attempts) = 1
        /\ result.attempts[1].res.ok
        /\ result.attempts[1].shape = (IF ty = "Ping" THEN "PingMessageD" ELSE "PongMessageD")
        /\ result.rest = <<>>

C3_Witness ==
    /\ Done("Ping") /\ src.form = "value"
    /\ src.v.from # src.v.to /\ src.v.expire = MaxU64
    /\ result.ok /\ result.val = src.v /\ Len(result.attempts) = 1

\* C4: for every Endpoint (IPv4 or IPv6, any two ports), FindNodeMessage and
\* NeighboursMessage v, decode(encode(v)) = v; the decoded node sequence has
\* the length and the order of the encoded one, duplicates included.
C4_RoundTrip ==
    ((Done("Ip") \/ Done("Endpoint") \/ Done("FindNode") \/ Done("Neighbours"))
        /\ src.form = "value") =>
        /\ result.ok
        /\ result.val = src.v
        /\ result.rest = <<>>
        /\ len = Len(wire)
        /\ ty = "Neighbours" =>
              /\ Len(result.val.nodes) = Len(src.v.nodes)
              /\ \A i \in 1..Len(src.v.nodes) : result.val.nodes[i] = src.v.nodes[i]

C4_Witness ==
    /\ Done("Neighbours") /\ src.form = "value"
    /\ src.v.nodes = <<NodeB, NodeA, NodeA>>
    /\ result.ok /\ result.val.nodes = <<NodeB, NodeA, NodeA>>

\* C5: in PingMessage::decode and PongMessage::decode, when the first-shape
\* attempt fails with an error other than a list-length mismatch the extended
\* shape is not attempted and that first error is returned unchanged; the
\* retry happens only when the first error is a list-length mismatch.
C5_RetryOnlyOnListLengthMismatch ==
    (Done("Ping") \/ Done("Pong")) =>
        /\ Len(result.attempts) \in {1, 2}
        /\ result.attempts[1].start = wire
        /\ (~result.attempts[1].res.ok
              /\ result.attempts[1].res.err.kind # "ListLengthMismatch") =>
                 /\ Len(result.attempts) = 1
                 /\ ~result.ok
                 /\ result.err = result.attempts[1].res.err
        /\ Len(result.attempts) = 2 =>
                 /\ ~result.attempts[1].res.ok
                 /\ result.attempts[1].res.err.kind = "ListLengthMismatch"

C5_Witness ==
    /\ Done("Ping") /\ src.form = "bad" /\ src.bad.why = "address" /\ src.bad.n = 7
    /\ src.k = 5
    /\ ~result.ok /\ result.err = Custom("wrong IP address length")
    /\ Len(result.attempts) = 1

\* C6: a Ping whose top-level record has exactly 4 fields but whose from / to
\* endpoint is damaged (an address of a length other than 4 or 16, or an
\* endpoint record without exactly 3 fields) fails with a field-level error
\* and the 5-field shape is never attempted.
C6_InnerCorruptionNeverRetried ==
    (Done("Ping") /\ src.form = "bad" /\ src.k = 4 /\ src.bad.why \in {"address", "count"}) =>
        /\ TopFieldCount(wire) = 4
        /\ ~result.ok
        /\ Len(result.attempts) = 1

\* C7: PingMessage::encode emits exactly the record [version, from, to, expire]
\* with version 4, in that order, never a fifth field, and length() reports
\* the length of that record.
C7_PingEncodeShape ==
    (pc # "encode" /\ ty = "Ping" /\ src.form = "value") =>
        /\ TopFieldCount(wire) = 4
        /\ ItemLen(wire) = Len(wire)
        /\ TopFields(wire) = <<<<4>>, EndpointEncode(src.v.from), EndpointEncode(src.v.to),
                               UintEncode(src.v.expire)>>
        /\ len = Len(wire)

C7_Witness ==
    /\ pc = "decode" /\ ty = "Ping" /\ src.form = "value"
    /\ src.v.from.address.fam = "V6" /\ src.v.to.address.fam = "V6"
    /\ Len(wire) > 56 /\ len = Len(wire)

\* a hand-built canonical address string of payload length src.n
IsAddressString ==
    /\ src.form = "string"
    /\ ~(src.n = 1 /\ wire[2] < EMPTY_STRING_CODE)

C9_CursorDiscipline ==
    (Done("Ping") \/ Done("Pong")) =>
        /\ \A i \in 1..Len(result.attempts) : result.attempts[i].start = wire
        /\ ~result.ok => result.rest = wire
        /\ result.ok =>
              /\ Len(wire) - Len(result.rest) = ItemLen(wire)
              /\ result.rest = Drop(wire, ItemLen(wire))

C9_Witness ==
    /\ Done("Ping") /\ src.form = "fields" /\ src.k = 5 /\ src.trail = <<192, 1>>
    /\ result.ok /\ Len(result.attempts) = 2 /\ result.rest = <<192, 1>>

WantedCounts == IF ty = "Ping" THEN {4, 5} ELSE {3, 4}

\* the items of the record that carry the decoded value
ValueItems ==
    IF ty = "Ping"
    THEN <<EndpointEncode(result.val.from), EndpointEncode(result.val.to),
           UintEncode(result.val.expire)>>
    ELSE <<EndpointEncode(result.val.to), BytesEncode(result.val.echo),
           UintEncode(result.val.expire)>>

\* C10 (as amended): PingMessage::decode returns a value only if the record
\* has exactly 4 or 5 fields, PongMessage::decode only if it has exactly 3 or
\* 4; any other field count is an error, also when bytes follow the record.
\* A returned value is made of the record's own fields and nothing after the
\* record is consumed.  (A failing attempt may read past the record.)
C10_ValueOnlyFromWantedCounts ==
    (Done("Ping") \/ Done("Pong")) =>
        /\ result.ok =>
              /\ TopFieldCount(wire) \in WantedCounts
              /\ result.rest = Drop(wire, ItemLen(wire))
              /\ SubSeq(TopFields(wire), IF ty = "Ping" THEN 2 ELSE 1,
                        IF ty = "Ping" THEN 4 ELSE 3) = ValueItems
        /\ (src.form = "fields" /\ src.k \notin WantedCounts) =>
              /\ TopFieldCount(wire) = src.k
              /\ ~result.ok

C10_Witness ==
    /\ Done("Ping") /\ src.form = "fields" /\ src.k = 3 /\ src.trail = <<1, 1>>
    /\ ~result.ok /\ Len(result.attempts) = 2
    /\ result.err = ListLengthMismatch(result.attempts[1].res.err.expected,
                                       result.attempts[1].res.err.expected + 2)

\* C10 (as claimed): no field is ever taken from bytes outside the record,
\* that is, no attempt on a record of well-formed fields consumes more bytes
\* than the record's payload holds.
C10_NoFieldFromOutsideRecord ==
    ((Done("Ping") \/ Done("Pong")) /\ src.form = "fields") =>
        \A i \in 1..Len(result.attempts) :
            result.attempts[i].res.err.kind = "ListLengthMismatch" =>
                result.attempts[i].res.err.got <= result.attempts[i].res.err.expected

=============================================================================
